---- MODULE Spec2Model ----
(***************************************************************************)
(* State machine of frontend/src/App.js: the App component's state, the    *)
(* four loaders dispatched by its effect, the students query               *)
(* (search / grade / status / pagination), the create and delete handlers  *)
(* and the three creation-form buffers.  The REST backend is an external   *)
(* collaborator: its answers are modelled from the interface contract      *)
(* (spec sections 3 and 6) over a small in-memory database.                *)
(***************************************************************************)
EXTENDS Integers, Sequences, FiniteSets, TLC

(***************************** bounds **************************************)
\* Requests the operator's events issue in one run (view changes, query
\* changes, submits, deletes; the mount effect's request included), in a run
\* of the views and the students list, and in a run of the creation forms.
MaxRequests == 4
MaxFormRequests == 3
\* The same in a run of the students list's page turns, resets and searches.
MaxPagingRequests == 5
\* The same in a run in which every request is answered and succeeds.
MaxLiveRequests == 4
\* Requests in flight at the same time when the operator issues one more.
MaxInFlight == 2
\* Student records in the backend database when the page is opened.
InitialStudents == 45

(************************** program constants ******************************)
GRADE_LEVELS ==
  << "Kindergarten", "Grade 1", "Grade 2", "Grade 3", "Grade 4", "Grade 5",
     "Grade 6", "Grade 7", "Grade 8", "Grade 9", "Grade 10", "Grade 11",
     "Grade 12" >>
STATUSES == << "active", "inactive", "graduated", "suspended" >>
Views == {"dashboard", "students", "teachers", "courses"}
DefaultLimit == 20
DefaultPagination == [skip |-> 0, limit |-> DefaultLimit]

DefaultStudentForm ==
  [ student_id |-> "", first_name |-> "", last_name |-> "", email |-> "",
    phone |-> "", date_of_birth |-> "", gender |-> "male",
    grade_level |-> "Grade 1", address |-> "", parent_name |-> "",
    parent_email |-> "", parent_phone |-> "" ]
DefaultTeacherForm ==
  [ teacher_id |-> "", first_name |-> "", last_name |-> "", email |-> "",
    phone |-> "", subject_specialization |-> "" ]
DefaultCourseForm ==
  [ course_code |-> "", course_name |-> "", description |-> "",
    credit_hours |-> "", grade_levels |-> << >> ]

(****************************** inputs *************************************)
\* What the operator types into the search box / picks in the two selects.
SearchInputs == {"", "Ann"}
GradeInputs == {"", "Grade 1"}
StatusInputs == {"", "suspended"}
\* What the operator types into the creation forms: the fields of one burst
\* of typing.  S1 is a student id the database holds, S99 is a new one.
StudentEdits ==
  { [student_id |-> "S1", first_name |-> "Ann", last_name |-> "Lee",
     date_of_birth |-> "2010-01-01"],
    [student_id |-> "S99", first_name |-> "Ann", last_name |-> "Lee",
     date_of_birth |-> "2010-01-01"] }
TeacherEdits ==
  { [teacher_id |-> "T1", first_name |-> "Tom", last_name |-> "Ray",
     email |-> "tom@school.example"] }
CourseEdits ==
  { [course_code |-> "M101", course_name |-> "Maths", credit_hours |-> "3"],
    [course_code |-> "M101", course_name |-> "Maths", credit_hours |-> ""] }
\* The checkboxes the operator clicks in the course form.
GradeClicks == {"Kindergarten", "Grade 1", "Grade 2"}
\* The rows whose Delete button the operator clicks.
DeleteRows == {1}

VARIABLES
  \* App state (useState, App.js:18-32)
  activeView, students, teachers, courses, dashboardStats, loading,
  searchTerm, filterGrade, filterStatus,
  showAddStudent, showAddTeacher, showAddCourse, pagination, totalStudents,
  \* modal-local state (useState, App.js:582, 795, 922)
  studentForm, teacherForm, courseForm,
  \* the last message shown with alert(), "" when none was shown, and the
  \* handlers whose promise was rejected with nobody catching it
  alertMsg, uncaught,
  \* requests in flight and the id the next request gets
  inflight, nextId,
  \* the backend's collections
  db, teacherDb, courseDb,
  \* history: the students load whose results students / totalStudents hold,
  \* and the students load issued last (0: none)
  studentsFrom, totalFrom, lastStudentsLoad,
  \* history: the last click on a grade checkbox of the course form and the
  \* click before it, each with grade_levels as it was before the click
  lastToggle,
  \* history: the last page turn or reset and the one before it, each with
  \* the query as it was before; the last answer given to window.confirm
  lastPaging, lastConfirm,
  \* the budget of the run: requests the operator may issue, and how many
  \* may be in flight when one more is issued; never changed
  budget

appVars ==
  << activeView, students, teachers, courses, dashboardStats, loading,
     searchTerm, filterGrade, filterStatus, showAddStudent, showAddTeacher,
     showAddCourse, pagination, totalStudents >>
formVars == << studentForm, teacherForm, courseForm >>
netVars == << inflight, nextId >>
backendVars == << db, teacherDb, courseDb >>
loadHist == << studentsFrom, totalFrom, lastStudentsLoad >>
clickHist == << lastPaging, lastConfirm >>
histVars == << loadHist, lastToggle, clickHist >>
uiVars == << alertMsg, uncaught >>
vars ==
  << appVars, formVars, uiVars, netVars, backendVars, histVars, budget >>

Min(a, b) == IF a < b THEN a ELSE b
Max(a, b) == IF a > b THEN a ELSE b

(************************ backend (interface contract) *********************)
\* The database the page is opened on: student i has a grade, a status and a
\* first name that make the filters select 23, 0 and 3 records.
InitialRecord(i) ==
  [ id |-> i, student_id |-> "S" \o ToString(i),
    first_name |-> IF i <= 3 THEN "Ann" ELSE "Bob",
    grade_level |-> IF i % 2 = 1 THEN "Grade 1" ELSE "Grade 2",
    status |-> IF i % 4 = 0 THEN "inactive" ELSE "active" ]
InitialDb == [i \in 1..InitialStudents |-> InitialRecord(i)]

\* The number a decimal query value stands for.
ParseNat(s) ==
  CHOOSE n \in 0..(InitialStudents + MaxRequests + MaxFormRequests + DefaultLimit) :
    ToString(n) = s

Matches(rec, p) ==
  /\ "search" \in DOMAIN p => rec.first_name = p.search
  /\ "grade_level" \in DOMAIN p => rec.grade_level = p.grade_level
  /\ "status" \in DOMAIN p => rec.status = p.status

BackendList(d, p) == SelectSeq(d, LAMBDA rec : Matches(rec, p))

\* GET /api/students?<p>
BackendPage(d, p) ==
  LET l == BackendList(d, p)
      s == ParseNat(p.skip)
      n == ParseNat(p.limit)
  IN SubSeq(l, s + 1, Min(s + n, Len(l)))

\* GET /api/students/count?<p>: skip and limit are ignored
BackendCount(d, p) == Len(BackendList(d, p))

\* GET /api/dashboard/stats
BackendStats ==
  [ total_students |-> Len(db),
    active_students |-> Len(SelectSeq(db, LAMBDA rec : rec.status = "active")),
    total_teachers |-> Len(teacherDb),
    total_courses |-> Len(courseDb) ]

(**************************** students query *******************************)
\* The values a render's closures see.
Query ==
  [ pagination |-> pagination, searchTerm |-> searchTerm,
    filterGrade |-> filterGrade, filterStatus |-> filterStatus ]

\* Params with the three filters appended whatever their value.
BuildParamsAllKeys(q) ==
  [ k \in {"skip", "limit", "search", "grade_level", "status"} |->
      CASE k = "skip" -> ToString(q.pagination.skip)
        [] k = "limit" -> ToString(q.pagination.limit)
        [] k = "search" -> q.searchTerm
        [] k = "grade_level" -> q.filterGrade
        [] k = "status" -> q.filterStatus ]

\* loadStudents: new URLSearchParams({skip, limit}) and the three appends,
\* each under `if (value)`: an empty string is falsy.
BuildParams(q) ==
  LET keys == {"skip", "limit"}
                \cup (IF q.searchTerm # "" THEN {"search"} ELSE {})
                \cup (IF q.filterGrade # "" THEN {"grade_level"} ELSE {})
                \cup (IF q.filterStatus # "" THEN {"status"} ELSE {})
  IN [ k \in keys |->
         CASE k = "skip" -> ToString(q.pagination.skip)
           [] k = "limit" -> ToString(q.pagination.limit)
           [] k = "search" -> q.searchTerm
           [] k = "grade_level" -> q.filterGrade
           [] k = "status" -> q.filterStatus ]

\* The query string of `${API}/students?${params}`
PageParams(q) == BuildParams(q)
\* A count URL built apart from the page URL, the status filter forgotten.
CountParamsNoStatus(q) ==
  [k \in DOMAIN BuildParams(q) \ {"status"} |-> BuildParams(q)[k]]
\* The query string of `${API}/students/count?${params}`
CountParams(q) == BuildParams(q)

\* The pair of requests loadStudents issues from a render that sees q.
StudentsLoad(id, q) ==
  [ id |-> id, kind |-> "students",
    pageParams |-> PageParams(q), countParams |-> CountParams(q),
    pageDone |-> FALSE, pageData |-> << >>,
    countDone |-> FALSE, countData |-> 0 ]

SimpleLoad(id, kind) == [id |-> id, kind |-> kind]

\* An effect that asks for the teachers and the courses page by page.
EffectRequestPaged(view, q) ==
  CASE view = "dashboard" -> SimpleLoad(nextId, "stats")
    [] view = "students" -> StudentsLoad(nextId, q)
    [] view = "teachers" ->
         [id |-> nextId, kind |-> "teachers", params |-> PageParams(q)]
    [] view = "courses" ->
         [id |-> nextId, kind |-> "courses", params |-> PageParams(q)]

\* useEffect: the loader of the view the render shows, with that render's values.
EffectRequest(view, q) ==
  CASE view = "dashboard" -> SimpleLoad(nextId, "stats")
    [] view = "students" -> StudentsLoad(nextId, q)
    [] view = "teachers" -> SimpleLoad(nextId, "teachers")
    [] view = "courses" -> SimpleLoad(nextId, "courses")

\* loadDashboardStats and loadStudents call setLoading(true); the other two
\* loaders leave the flag alone.
EffectLoading(view) == IF view \in {"dashboard", "students"} THEN TRUE ELSE loading

CanIssue == nextId <= budget.issued /\ Cardinality(inflight) < budget.together

RunEffect(view, q) ==
  /\ CanIssue
  /\ budget' = budget
  /\ inflight' = inflight \cup {EffectRequest(view, q)}
  /\ nextId' = nextId + 1
  /\ loading' = EffectLoading(view)
  /\ lastStudentsLoad' = IF view = "students" THEN nextId ELSE lastStudentsLoad

(******************************* Init **************************************)
\* The state after the first render and its effect: the dashboard is shown
\* and its statistics fetch is in flight.
NoToggle ==
  [grade |-> "", before |-> << >>, prevGrade |-> "", prevBefore |-> << >>]

InitialQuery ==
  [ pagination |-> DefaultPagination, searchTerm |-> "", filterGrade |-> "",
    filterStatus |-> "" ]
NoPaging ==
  [ op |-> "", before |-> InitialQuery, prevOp |-> "",
    prevBefore |-> InitialQuery ]
\* What lastPaging holds after the handler `op` ran in the current state.
PagingAfter(op) ==
  [ op |-> op, before |-> Query, prevOp |-> lastPaging.op,
    prevBefore |-> lastPaging.before ]

InitApp ==
  /\ activeView = "dashboard"
  /\ students = << >>
  /\ teachers = << >>
  /\ courses = << >>
  /\ dashboardStats = [loaded |-> FALSE]
  /\ loading = TRUE
  /\ searchTerm = ""
  /\ filterGrade = ""
  /\ filterStatus = ""
  /\ showAddStudent = FALSE
  /\ showAddTeacher = FALSE
  /\ showAddCourse = FALSE
  /\ pagination = DefaultPagination
  /\ totalStudents = 0
  /\ studentForm = DefaultStudentForm
  /\ teacherForm = DefaultTeacherForm
  /\ courseForm = DefaultCourseForm
  /\ alertMsg = ""
  /\ uncaught = {}
  /\ inflight = {SimpleLoad(1, "stats")}
  /\ nextId = 2
  /\ db = InitialDb
  /\ teacherDb = << >>
  /\ courseDb = << >>
  /\ studentsFrom = 0
  /\ totalFrom = 0
  /\ lastStudentsLoad = 0
  /\ lastToggle = NoToggle
  /\ lastPaging = NoPaging
  /\ lastConfirm = "none"

(*************************** navigation ************************************)
\* onClick={() => setActiveView(v)}; setting the value it already has does
\* not re-render, so no effect runs.
Navigate(v) ==
  /\ v # activeView
  /\ activeView' = v
  /\ RunEffect(v, Query)
  /\ UNCHANGED << students, teachers, courses, dashboardStats, searchTerm,
                  filterGrade, filterStatus, showAddStudent, showAddTeacher,
                  showAddCourse, pagination, totalStudents, formVars, uiVars,
                  backendVars, studentsFrom, totalFrom, lastToggle, clickHist >>

(************************ filters and pagination ***************************)
\* The filter controls are rendered in the students view, above the list.
SetSearchTerm(t) ==
  /\ activeView = "students"
  /\ t # searchTerm
  /\ searchTerm' = t
  /\ RunEffect(activeView, [Query EXCEPT !.searchTerm = t])
  /\ UNCHANGED << activeView, students, teachers, courses, dashboardStats,
                  filterGrade, filterStatus, showAddStudent, showAddTeacher,
                  showAddCourse, pagination, totalStudents, formVars, uiVars,
                  backendVars, studentsFrom, totalFrom, lastToggle, clickHist >>

SetFilterGrade(g) ==
  /\ activeView = "students"
  /\ g # filterGrade
  /\ filterGrade' = g
  /\ RunEffect(activeView, [Query EXCEPT !.filterGrade = g])
  /\ UNCHANGED << activeView, students, teachers, courses, dashboardStats,
                  searchTerm, filterStatus, showAddStudent, showAddTeacher,
                  showAddCourse, pagination, totalStudents, formVars, uiVars,
                  backendVars, studentsFrom, totalFrom, lastToggle, clickHist >>

SetFilterStatus(s) ==
  /\ activeView = "students"
  /\ s # filterStatus
  /\ filterStatus' = s
  /\ RunEffect(activeView, [Query EXCEPT !.filterStatus = s])
  /\ UNCHANGED << activeView, students, teachers, courses, dashboardStats,
                  searchTerm, filterGrade, showAddStudent, showAddTeacher,
                  showAddCourse, pagination, totalStudents, formVars, uiVars,
                  backendVars, studentsFrom, totalFrom, lastToggle, clickHist >>

\* A reset that leaves the page where it is.
ResetQueryKeepsPage ==
  [ pagination |-> pagination, searchTerm |-> "", filterGrade |-> "",
    filterStatus |-> "" ]
\* The four setters are batched into one render; setPagination gets a new
\* object, so the effect runs even when no value changed.
ResetQuery ==
  [ pagination |-> [skip |-> 0, limit |-> DefaultLimit], searchTerm |-> "",
    filterGrade |-> "", filterStatus |-> "" ]

\* A reset whose setters are rendered one by one: a load after the filters
\* are cleared and another after the page is.
resetFiltersUnbatched ==
  /\ activeView = "students"
  /\ CanIssue
  /\ budget' = budget
  /\ searchTerm' = ResetQuery.searchTerm
  /\ filterGrade' = ResetQuery.filterGrade
  /\ filterStatus' = ResetQuery.filterStatus
  /\ pagination' = ResetQuery.pagination
  /\ inflight' = inflight \cup
       { StudentsLoad(nextId, [ResetQuery EXCEPT !.pagination = pagination]),
         StudentsLoad(nextId + 1, ResetQuery) }
  /\ nextId' = nextId + 2
  /\ loading' = TRUE
  /\ lastStudentsLoad' = nextId + 1
  /\ lastPaging' = PagingAfter("reset")
  /\ UNCHANGED << activeView, students, teachers, courses, dashboardStats,
                  showAddStudent, showAddTeacher, showAddCourse, totalStudents,
                  formVars, uiVars, backendVars, studentsFrom, totalFrom,
                  lastToggle, lastConfirm >>

resetFilters ==
  /\ activeView = "students"
  /\ searchTerm' = ResetQuery.searchTerm
  /\ filterGrade' = ResetQuery.filterGrade
  /\ filterStatus' = ResetQuery.filterStatus
  /\ pagination' = ResetQuery.pagination
  /\ RunEffect(activeView, ResetQuery)
  /\ lastPaging' = PagingAfter("reset")
  /\ UNCHANGED << activeView, students, teachers, courses, dashboardStats,
                  showAddStudent, showAddTeacher, showAddCourse, totalStudents,
                  formVars, uiVars, backendVars, studentsFrom, totalFrom,
                  lastToggle, lastConfirm >>

\* nextPage with prevPage's arithmetic, and nextPage counting pages.
NextPaginationBackwards(prev) == [prev EXCEPT !.skip = prev.skip - prev.limit]
NextPaginationByOne(prev) == [prev EXCEPT !.skip = prev.skip + 1]
\* nextPage building a new object that also enlarges the page.
NextPaginationResized(prev) ==
  [skip |-> prev.skip + prev.limit, limit |-> prev.limit + prev.limit]
\* setPagination(prev => ({...prev, skip: prev.skip + prev.limit}))
NextPagination(prev) == [prev EXCEPT !.skip = prev.skip + prev.limit]
\* prevPage going back to the first page, and prevPage without Math.max.
PrevPaginationToFirst(prev) == [prev EXCEPT !.skip = 0]
PrevPaginationUnclamped(prev) == [prev EXCEPT !.skip = prev.skip - prev.limit]
\* setPagination(prev => ({...prev, skip: Math.max(0, prev.skip - prev.limit)}))
PrevPagination(prev) == [prev EXCEPT !.skip = Max(0, prev.skip - prev.limit)]

\* The pagination buttons are part of the list, which is rendered in the
\* students view when loading is false.
ListShown == activeView = "students" /\ ~loading
\* Next disabled only once skip itself is past the end.
NextDisabledPastEnd == pagination.skip >= totalStudents
NextDisabled == pagination.skip + pagination.limit >= totalStudents
PrevDisabled == pagination.skip = 0
\* The window text without Math.min.
PageWindowUnclipped ==
  [ from |-> pagination.skip + 1,
    to |-> pagination.skip + pagination.limit,
    of |-> totalStudents ]
\* Showing {skip + 1} to {Math.min(skip + limit, totalStudents)} of {totalStudents}
PageWindow ==
  [ from |-> pagination.skip + 1,
    to |-> Min(pagination.skip + pagination.limit, totalStudents),
    of |-> totalStudents ]

nextPage ==
  /\ ListShown
  /\ ~NextDisabled
  /\ pagination' = NextPagination(pagination)
  /\ RunEffect(activeView, [Query EXCEPT !.pagination = NextPagination(pagination)])
  /\ lastPaging' = PagingAfter("next")
  /\ UNCHANGED << activeView, students, teachers, courses, dashboardStats,
                  searchTerm, filterGrade, filterStatus, showAddStudent,
                  showAddTeacher, showAddCourse, totalStudents, formVars,
                  uiVars, backendVars, studentsFrom, totalFrom, lastToggle,
                  lastConfirm >>

prevPage ==
  /\ ListShown
  /\ ~PrevDisabled
  /\ pagination' = PrevPagination(pagination)
  /\ RunEffect(activeView, [Query EXCEPT !.pagination = PrevPagination(pagination)])
  /\ lastPaging' = PagingAfter("prev")
  /\ UNCHANGED << activeView, students, teachers, courses, dashboardStats,
                  searchTerm, filterGrade, filterStatus, showAddStudent,
                  showAddTeacher, showAddCourse, totalStudents, formVars,
                  uiVars, backendVars, studentsFrom, totalFrom, lastToggle,
                  lastConfirm >>

(***************************** responses ***********************************)
\* A statistics load whose catch clears what was shown.
StatsRespondsClearing(r, ok) ==
  /\ r \in inflight /\ r.kind = "stats"
  /\ inflight' = inflight \ {r}
  /\ dashboardStats' = IF ok THEN [loaded |-> TRUE, data |-> BackendStats]
                             ELSE [loaded |-> FALSE]
  /\ loading' = FALSE
  /\ UNCHANGED << activeView, students, teachers, courses, searchTerm,
                  filterGrade, filterStatus, showAddStudent, showAddTeacher,
                  showAddCourse, pagination, totalStudents, formVars, uiVars,
                  nextId, backendVars, histVars, budget >>

\* loadDashboardStats after its await: the data on success, the catch on
\* failure, setLoading(false) in both.
StatsResponds(r, ok) ==
  /\ r \in inflight /\ r.kind = "stats"
  /\ inflight' = inflight \ {r}
  /\ dashboardStats' = IF ok THEN [loaded |-> TRUE, data |-> BackendStats]
                             ELSE dashboardStats
  /\ loading' = FALSE
  /\ UNCHANGED << activeView, students, teachers, courses, searchTerm,
                  filterGrade, filterStatus, showAddStudent, showAddTeacher,
                  showAddCourse, pagination, totalStudents, formVars, uiVars,
                  nextId, backendVars, histVars, budget >>

\* A teachers load whose catch goes back to the dashboard.
TeachersRespondsLeaving(r, ok) ==
  /\ r \in inflight /\ r.kind = "teachers"
  /\ inflight' = inflight \ {r}
  /\ teachers' = IF ok THEN teacherDb ELSE teachers
  /\ activeView' = IF ok THEN activeView ELSE "dashboard"
  /\ UNCHANGED << students, courses, dashboardStats, loading,
                  searchTerm, filterGrade, filterStatus, showAddStudent,
                  showAddTeacher, showAddCourse, pagination, totalStudents,
                  formVars, uiVars, nextId, backendVars, histVars, budget >>

TeachersResponds(r, ok) ==
  /\ r \in inflight /\ r.kind = "teachers"
  /\ inflight' = inflight \ {r}
  /\ teachers' = IF ok THEN teacherDb ELSE teachers
  /\ UNCHANGED << activeView, students, courses, dashboardStats, loading,
                  searchTerm, filterGrade, filterStatus, showAddStudent,
                  showAddTeacher, showAddCourse, pagination, totalStudents,
                  formVars, uiVars, nextId, backendVars, histVars, budget >>

CoursesResponds(r, ok) ==
  /\ r \in inflight /\ r.kind = "courses"
  /\ inflight' = inflight \ {r}
  /\ courses' = IF ok THEN courseDb ELSE courses
  /\ UNCHANGED << activeView, students, teachers, dashboardStats, loading,
                  searchTerm, filterGrade, filterStatus, showAddStudent,
                  showAddTeacher, showAddCourse, pagination, totalStudents,
                  formVars, uiVars, nextId, backendVars, histVars, budget >>

\* A commit that takes a count of 0 for no count at all.
CommitStudentsIfCounted(r, page, count) ==
  /\ students' = page
  /\ totalStudents' = IF count # 0 THEN count ELSE totalStudents
  /\ studentsFrom' = r.id
  /\ totalFrom' = r.id
  /\ loading' = FALSE
  /\ inflight' = inflight \ {r}

\* loadStudents after `await Promise.all([...])`: both setters, then the
\* finally block.
CommitStudents(r, page, count) ==
  /\ students' = page
  /\ totalStudents' = count
  /\ studentsFrom' = r.id
  /\ totalFrom' = r.id
  /\ loading' = FALSE
  /\ inflight' = inflight \ {r}

\* A load that applies whatever part had arrived when the other failed.
FailStudentsPartial(r) ==
  /\ loading' = FALSE
  /\ inflight' = inflight \ {r}
  /\ students' = IF r.pageDone THEN r.pageData ELSE students
  /\ totalStudents' = IF r.countDone THEN r.countData ELSE totalStudents
  /\ UNCHANGED << studentsFrom, totalFrom >>

\* A failed load with no finally block.
FailStudentsNoFinally(r) ==
  /\ inflight' = inflight \ {r}
  /\ UNCHANGED << students, totalStudents, studentsFrom, totalFrom, loading >>

\* Promise.all rejects with the first failure: the catch logs, the finally
\* block clears the flag; what the other request answers is dropped.
FailStudents(r) ==
  /\ loading' = FALSE
  /\ inflight' = inflight \ {r}
  /\ UNCHANGED << students, totalStudents, studentsFrom, totalFrom >>

\* A page awaited on its own and shown as soon as it arrives.
PageRespondsEager(r, ok) ==
  /\ r \in inflight /\ r.kind = "students" /\ ~r.pageDone
  /\ IF ~ok THEN FailStudents(r)
     ELSE IF r.countDone
       THEN CommitStudents(r, BackendPage(db, r.pageParams), r.countData)
       ELSE /\ inflight' = (inflight \ {r}) \cup
                 {[r EXCEPT !.pageDone = TRUE,
                            !.pageData = BackendPage(db, r.pageParams)]}
            /\ students' = BackendPage(db, r.pageParams)
            /\ studentsFrom' = r.id
            /\ UNCHANGED << totalStudents, totalFrom, loading >>
  /\ UNCHANGED << activeView, teachers, courses, dashboardStats, searchTerm,
                  filterGrade, filterStatus, showAddStudent, showAddTeacher,
                  showAddCourse, pagination, formVars, uiVars, nextId,
                  backendVars, lastStudentsLoad, lastToggle, clickHist, budget >>

PageResponds(r, ok) ==
  /\ r \in inflight /\ r.kind = "students" /\ ~r.pageDone
  /\ IF ~ok THEN FailStudents(r)
     ELSE IF r.countDone
       THEN CommitStudents(r, BackendPage(db, r.pageParams), r.countData)
       ELSE /\ inflight' = (inflight \ {r}) \cup
                 {[r EXCEPT !.pageDone = TRUE,
                            !.pageData = BackendPage(db, r.pageParams)]}
            /\ UNCHANGED << students, totalStudents, studentsFrom, totalFrom,
                            loading >>
  /\ UNCHANGED << activeView, teachers, courses, dashboardStats, searchTerm,
                  filterGrade, filterStatus, showAddStudent, showAddTeacher,
                  showAddCourse, pagination, formVars, uiVars, nextId,
                  backendVars, lastStudentsLoad, lastToggle, clickHist, budget >>

CountResponds(r, ok) ==
  /\ r \in inflight /\ r.kind = "students" /\ ~r.countDone
  /\ IF ~ok THEN FailStudents(r)
     ELSE IF r.pageDone
       THEN CommitStudents(r, r.pageData, BackendCount(db, r.countParams))
       ELSE /\ inflight' = (inflight \ {r}) \cup
                 {[r EXCEPT !.countDone = TRUE,
                            !.countData = BackendCount(db, r.countParams)]}
            /\ UNCHANGED << students, totalStudents, studentsFrom, totalFrom,
                            loading >>
  /\ UNCHANGED << activeView, teachers, courses, dashboardStats, searchTerm,
                  filterGrade, filterStatus, showAddStudent, showAddTeacher,
                  showAddCourse, pagination, formVars, uiVars, nextId,
                  backendVars, lastStudentsLoad, lastToggle, clickHist, budget >>

(************************* creation forms **********************************)
\* onChange={(e) => setFormData({...formData, <field>: e.target.value})},
\* once for each field of `edits`.
EditForm(form, edits) ==
  [f \in DOMAIN form |-> IF f \in DOMAIN edits THEN edits[f] ELSE form[f]]

\* The inputs marked `required`: the browser does not submit while one is empty.
StudentRequired == {"student_id", "first_name", "last_name", "date_of_birth"}
TeacherRequired == {"teacher_id", "first_name", "last_name", "email"}
CourseRequired == {"course_code", "course_name"}
Filled(form, required) == \A f \in required : form[f] # ""

\* error.response?.data?.detail || error.message
RejectedError(detail) ==
  [detail |-> detail, message |-> "Request failed with status code 400"]
NetworkError == [detail |-> "", message |-> "Network Error"]
\* The detail with no fallback.
ErrorTextDetailOnly(error) == error.detail
ErrorText(error) == IF error.detail # "" THEN error.detail ELSE error.message
Outcomes == {"ok", "rejected", "network"}
\* The detail of a non-success answer to a POST: the duplicate's message, or
\* that of the backend's own validation.
RejectionDetail(exists, what) ==
  IF exists THEN what \o " already exists" ELSE "Invalid " \o what

\* The Add buttons of the three list views; the modals' close and Cancel buttons.
OpenAddStudent ==
  /\ activeView = "students" /\ ~showAddStudent
  /\ showAddStudent' = TRUE
  /\ UNCHANGED << activeView, students, teachers, courses, dashboardStats,
                  loading, searchTerm, filterGrade, filterStatus,
                  showAddTeacher, showAddCourse, pagination, totalStudents,
                  formVars, uiVars, netVars, backendVars, histVars, budget >>

OpenAddTeacher ==
  /\ activeView = "teachers" /\ ~showAddTeacher
  /\ showAddTeacher' = TRUE
  /\ UNCHANGED << activeView, students, teachers, courses, dashboardStats,
                  loading, searchTerm, filterGrade, filterStatus,
                  showAddStudent, showAddCourse, pagination, totalStudents,
                  formVars, uiVars, netVars, backendVars, histVars, budget >>

OpenAddCourse ==
  /\ activeView = "courses" /\ ~showAddCourse
  /\ showAddCourse' = TRUE
  /\ UNCHANGED << activeView, students, teachers, courses, dashboardStats,
                  loading, searchTerm, filterGrade, filterStatus,
                  showAddStudent, showAddTeacher, pagination, totalStudents,
                  formVars, uiVars, netVars, backendVars, histVars, budget >>

\* A Cancel that also empties the student form.
CloseAddStudentDiscarding ==
  /\ showAddStudent
  /\ showAddStudent' = FALSE
  /\ studentForm' = DefaultStudentForm
  /\ UNCHANGED << activeView, students, teachers, courses, dashboardStats,
                  loading, searchTerm, filterGrade, filterStatus,
                  showAddTeacher, showAddCourse, pagination, totalStudents,
                  teacherForm, courseForm, uiVars, netVars, backendVars,
                  histVars, budget >>

CloseAddStudent ==
  /\ showAddStudent
  /\ showAddStudent' = FALSE
  /\ UNCHANGED << activeView, students, teachers, courses, dashboardStats,
                  loading, searchTerm, filterGrade, filterStatus,
                  showAddTeacher, showAddCourse, pagination, totalStudents,
                  formVars, uiVars, netVars, backendVars, histVars, budget >>

CloseAddTeacher ==
  /\ showAddTeacher
  /\ showAddTeacher' = FALSE
  /\ UNCHANGED << activeView, students, teachers, courses, dashboardStats,
                  loading, searchTerm, filterGrade, filterStatus,
                  showAddStudent, showAddCourse, pagination, totalStudents,
                  formVars, uiVars, netVars, backendVars, histVars, budget >>

CloseAddCourse ==
  /\ showAddCourse
  /\ showAddCourse' = FALSE
  /\ UNCHANGED << activeView, students, teachers, courses, dashboardStats,
                  loading, searchTerm, filterGrade, filterStatus,
                  showAddStudent, showAddTeacher, pagination, totalStudents,
                  formVars, uiVars, netVars, backendVars, histVars, budget >>

\* Typing into a form: its inputs exist only while the modal is open.
TypeStudentForm(edits) ==
  /\ showAddStudent
  /\ studentForm' = EditForm(studentForm, edits)
  /\ studentForm' # studentForm
  /\ UNCHANGED << appVars, teacherForm, courseForm, uiVars, netVars,
                  backendVars, histVars, budget >>

TypeTeacherForm(edits) ==
  /\ showAddTeacher
  /\ teacherForm' = EditForm(teacherForm, edits)
  /\ teacherForm' # teacherForm
  /\ UNCHANGED << appVars, studentForm, courseForm, uiVars, netVars,
                  backendVars, histVars, budget >>

TypeCourseForm(edits) ==
  /\ showAddCourse
  /\ courseForm' = EditForm(courseForm, edits)
  /\ courseForm' # courseForm
  /\ UNCHANGED << appVars, studentForm, teacherForm, uiVars, netVars,
                  backendVars, histVars, budget >>

\* formData.grade_levels.includes(grade)
Includes(seq, x) == \E i \in 1..Len(seq) : seq[i] = x
\* A toggle that puts a newly selected grade first.
ToggleGradePrepend(grades, grade) ==
  IF Includes(grades, grade)
    THEN SelectSeq(grades, LAMBDA g : g # grade)
    ELSE << grade >> \o grades

\* A toggle that appends whether or not the grade is included.
ToggleGradeAppendOnly(grades, grade) == Append(grades, grade)

\* handleGradeLevelChange: filter the grade out when it is included, append
\* it otherwise.
ToggleGrade(grades, grade) ==
  IF Includes(grades, grade)
    THEN SelectSeq(grades, LAMBDA g : g # grade)
    ELSE Append(grades, grade)

handleGradeLevelChange(grade) ==
  /\ showAddCourse
  /\ courseForm' = [courseForm EXCEPT
                      !.grade_levels = ToggleGrade(courseForm.grade_levels, grade)]
  /\ lastToggle' = [ grade |-> grade, before |-> courseForm.grade_levels,
                     prevGrade |-> lastToggle.grade,
                     prevBefore |-> lastToggle.before ]
  /\ UNCHANGED << appVars, studentForm, teacherForm, uiVars, netVars,
                  backendVars, loadHist, clickHist, budget >>

(************************** create student *********************************)
\* What the three handleSubmit pass to setFormData right after onSubmit(...).
StudentFormAfterSubmit(form) == DefaultStudentForm
TeacherFormAfterSubmit(form) == DefaultTeacherForm
CourseFormAfterSubmit(form) == DefaultCourseForm

\* AddStudentModal.handleSubmit: onSubmit(formData) starts handleAddStudent,
\* which runs to its await (the POST is issued); then setFormData(defaults).
\* The handler is the one of the current render: its loadStudents sees Query.

SubmitStudent ==
  /\ showAddStudent
  /\ CanIssue
  /\ Filled(studentForm, StudentRequired)
  /\ inflight' = inflight \cup
       {[id |-> nextId, kind |-> "postStudent", body |-> studentForm,
         closure |-> Query]}
  /\ nextId' = nextId + 1
  /\ studentForm' = StudentFormAfterSubmit(studentForm)
  /\ UNCHANGED << appVars, teacherForm, courseForm, uiVars, backendVars,
                  histVars, budget >>

\* POST /api/students: a student id the database holds is never accepted.
StudentIdExists(d, sid) == \E i \in 1..Len(d) : d[i].student_id = sid
CreatedStudent(r) ==
  [ id |-> InitialStudents + r.id, student_id |-> r.body.student_id,
    first_name |-> r.body.first_name, grade_level |-> r.body.grade_level,
    status |-> "active" ]

\* handleAddStudent after its await, on success: setShowAddStudent(false);
\* loadStudents() -- the loadStudents of the render the handler came from.
AddStudentOk(r) ==
  /\ showAddStudent' = FALSE
  /\ inflight' = (inflight \ {r}) \cup {StudentsLoad(nextId, r.closure)}
  /\ nextId' = nextId + 1
  /\ lastStudentsLoad' = nextId
  /\ loading' = TRUE
  /\ UNCHANGED << alertMsg, uncaught >>

\* A catch that shows error.message alone.
AddStudentFailedNoDetail(r, error) ==
  /\ alertMsg' = "Error adding student: " \o error.message
  /\ inflight' = inflight \ {r}
  /\ UNCHANGED << showAddStudent, nextId, lastStudentsLoad, loading, uncaught >>

\* handleAddStudent's catch: console.error and alert.
AddStudentFailed(r, error) ==
  /\ alertMsg' = "Error adding student: " \o ErrorText(error)
  /\ inflight' = inflight \ {r}
  /\ UNCHANGED << showAddStudent, nextId, lastStudentsLoad, loading, uncaught >>

PostStudentResponds(r, outcome) ==
  /\ r \in inflight /\ r.kind = "postStudent"
  /\ CASE outcome = "ok" ->
            /\ ~StudentIdExists(db, r.body.student_id)
            /\ db' = Append(db, CreatedStudent(r))
            /\ AddStudentOk(r)
       [] outcome = "rejected" ->
            /\ db' = db
            /\ AddStudentFailed(r, RejectedError(RejectionDetail(
                   StudentIdExists(db, r.body.student_id), "Student ID")))
       [] outcome = "network" ->
            /\ db' = db
            /\ AddStudentFailed(r, NetworkError)
  /\ UNCHANGED << activeView, students, teachers, courses, dashboardStats,
                  searchTerm, filterGrade, filterStatus, showAddTeacher,
                  showAddCourse, pagination, totalStudents, formVars,
                  teacherDb, courseDb, studentsFrom, totalFrom, lastToggle,
                  clickHist, budget >>

(************************** create teacher *********************************)
SubmitTeacher ==
  /\ showAddTeacher
  /\ CanIssue
  /\ Filled(teacherForm, TeacherRequired)
  /\ inflight' = inflight \cup
       {[id |-> nextId, kind |-> "postTeacher", body |-> teacherForm]}
  /\ nextId' = nextId + 1
  /\ teacherForm' = TeacherFormAfterSubmit(teacherForm)
  /\ UNCHANGED << appVars, studentForm, courseForm, uiVars, backendVars,
                  histVars, budget >>

TeacherIdExists(d, tid) == \E i \in 1..Len(d) : d[i].teacher_id = tid

AddTeacherOk(r) ==
  /\ showAddTeacher' = FALSE
  /\ inflight' = (inflight \ {r}) \cup {SimpleLoad(nextId, "teachers")}
  /\ nextId' = nextId + 1
  /\ UNCHANGED << alertMsg, uncaught >>

\* A catch that sends the request once more.
AddTeacherFailedRetry(r, error) ==
  /\ alertMsg' = "Error adding teacher: " \o ErrorText(error)
  /\ inflight' = (inflight \ {r}) \cup {[r EXCEPT !.id = nextId]}
  /\ nextId' = nextId + 1
  /\ UNCHANGED << showAddTeacher, uncaught >>

AddTeacherFailed(r, error) ==
  /\ alertMsg' = "Error adding teacher: " \o ErrorText(error)
  /\ inflight' = inflight \ {r}
  /\ UNCHANGED << showAddTeacher, nextId, uncaught >>

PostTeacherResponds(r, outcome) ==
  /\ r \in inflight /\ r.kind = "postTeacher"
  /\ CASE outcome = "ok" ->
            /\ ~TeacherIdExists(teacherDb, r.body.teacher_id)
            /\ teacherDb' = Append(teacherDb, r.body)
            /\ AddTeacherOk(r)
       [] outcome = "rejected" ->
            /\ teacherDb' = teacherDb
            /\ AddTeacherFailed(r, RejectedError(RejectionDetail(
                   TeacherIdExists(teacherDb, r.body.teacher_id), "Teacher ID")))
       [] outcome = "network" ->
            /\ teacherDb' = teacherDb
            /\ AddTeacherFailed(r, NetworkError)
  /\ UNCHANGED << activeView, students, teachers, courses, dashboardStats,
                  loading, searchTerm, filterGrade, filterStatus,
                  showAddStudent, showAddCourse, pagination, totalStudents,
                  formVars, db, courseDb, histVars, budget >>

(*************************** create course *********************************)
\* parseInt of the text of a number input: the leading digits.
ParseInt(text) ==
  IF \E n \in 0..99 : ToString(n) = text
    THEN [nan |-> FALSE, value |-> CHOOSE n \in 0..99 : ToString(n) = text]
    ELSE [nan |-> TRUE, value |-> 0]

\* Submit data whose credit_hours is parsed whatever the text.
CourseSubmitDataAlwaysParsed(form) ==
  [ course_code |-> form.course_code, course_name |-> form.course_name,
    description |-> form.description,
    credit_hours |-> [null |-> FALSE, int |-> ParseInt(form.credit_hours)],
    grade_levels |-> form.grade_levels ]

\* {...formData, credit_hours: formData.credit_hours ? parseInt(...) : null}
CourseSubmitData(form) ==
  [ course_code |-> form.course_code, course_name |-> form.course_name,
    description |-> form.description,
    credit_hours |-> IF form.credit_hours # ""
                       THEN [null |-> FALSE, int |-> ParseInt(form.credit_hours)]
                       ELSE [null |-> TRUE, int |-> ParseInt("")],
    grade_levels |-> form.grade_levels ]

SubmitCourse ==
  /\ showAddCourse
  /\ CanIssue
  /\ Filled(courseForm, CourseRequired)
  /\ inflight' = inflight \cup
       {[id |-> nextId, kind |-> "postCourse",
         body |-> CourseSubmitData(courseForm)]}
  /\ nextId' = nextId + 1
  /\ courseForm' = CourseFormAfterSubmit(courseForm)
  /\ lastToggle' = NoToggle
  /\ UNCHANGED << appVars, studentForm, teacherForm, uiVars, backendVars,
                  loadHist, clickHist, budget >>

CourseCodeExists(d, code) == \E i \in 1..Len(d) : d[i].course_code = code

AddCourseOk(r) ==
  /\ showAddCourse' = FALSE
  /\ inflight' = (inflight \ {r}) \cup {SimpleLoad(nextId, "courses")}
  /\ nextId' = nextId + 1
  /\ UNCHANGED << alertMsg, uncaught >>

AddCourseFailed(r, error) ==
  /\ alertMsg' = "Error adding course: " \o ErrorText(error)
  /\ inflight' = inflight \ {r}
  /\ UNCHANGED << showAddCourse, nextId, uncaught >>

PostCourseResponds(r, outcome) ==
  /\ r \in inflight /\ r.kind = "postCourse"
  /\ CASE outcome = "ok" ->
            /\ ~CourseCodeExists(courseDb, r.body.course_code)
            /\ courseDb' = Append(courseDb, r.body)
            /\ AddCourseOk(r)
       [] outcome = "rejected" ->
            /\ courseDb' = courseDb
            /\ AddCourseFailed(r, RejectedError(RejectionDetail(
                   CourseCodeExists(courseDb, r.body.course_code), "Course code")))
       [] outcome = "network" ->
            /\ courseDb' = courseDb
            /\ AddCourseFailed(r, NetworkError)
  /\ UNCHANGED << activeView, students, teachers, courses, dashboardStats,
                  loading, searchTerm, filterGrade, filterStatus,
                  showAddStudent, showAddTeacher, pagination, totalStudents,
                  formVars, db, teacherDb, histVars, budget >>

(*************************** delete student ********************************)
\* A Delete button that sends the request whatever window.confirm answers.
handleDeleteStudentUnasked(row, confirmed) ==
  /\ ListShown
  /\ row \in 1..Len(students)
  /\ CanIssue
  /\ inflight' = inflight \cup
       {[id |-> nextId, kind |-> "deleteStudent",
         studentId |-> students[row].id, closure |-> Query]}
  /\ nextId' = nextId + 1
  /\ lastConfirm' = IF confirmed THEN "confirmed" ELSE "declined"
  /\ UNCHANGED << appVars, formVars, uiVars, backendVars, loadHist,
                  lastToggle, lastPaging, budget >>

\* The Delete button of a row of the list; window.confirm answers at once.
handleDeleteStudent(row, confirmed) ==
  /\ ListShown
  /\ row \in 1..Len(students)
  /\ IF confirmed
       THEN /\ CanIssue
            /\ inflight' = inflight \cup
                 {[id |-> nextId, kind |-> "deleteStudent",
                   studentId |-> students[row].id, closure |-> Query]}
            /\ nextId' = nextId + 1
       ELSE UNCHANGED << inflight, nextId >>
  /\ lastConfirm' = IF confirmed THEN "confirmed" ELSE "declined"
  /\ UNCHANGED << appVars, formVars, uiVars, backendVars, loadHist,
                  lastToggle, lastPaging, budget >>

HasStudent(d, id) == \E i \in 1..Len(d) : d[i].id = id

\* handleDeleteStudent after its await: loadStudents() on success, the
\* catch (console.error) on failure.
DeleteResponds(r, outcome) ==
  /\ r \in inflight /\ r.kind = "deleteStudent"
  /\ CASE outcome = "ok" ->
            /\ HasStudent(db, r.studentId)
            /\ db' = SelectSeq(db, LAMBDA rec : rec.id # r.studentId)
            /\ inflight' = (inflight \ {r}) \cup {StudentsLoad(nextId, r.closure)}
            /\ nextId' = nextId + 1
            /\ lastStudentsLoad' = nextId
            /\ loading' = TRUE
       [] outcome = "rejected" ->
            /\ ~HasStudent(db, r.studentId)
            /\ inflight' = inflight \ {r}
            /\ UNCHANGED << db, nextId, lastStudentsLoad, loading >>
       [] outcome = "network" ->
            /\ inflight' = inflight \ {r}
            /\ UNCHANGED << db, nextId, lastStudentsLoad, loading >>
  /\ UNCHANGED << activeView, students, teachers, courses, dashboardStats,
                  searchTerm, filterGrade, filterStatus, showAddStudent,
                  showAddTeacher, showAddCourse, pagination, totalStudents,
                  formVars, uiVars, teacherDb, courseDb, studentsFrom,
                  totalFrom, lastToggle, clickHist, budget >>

(***************************** specifications ******************************)
Responses ==
  \/ \E r \in inflight, ok \in BOOLEAN : StatsResponds(r, ok)
  \/ \E r \in inflight, ok \in BOOLEAN : TeachersResponds(r, ok)
  \/ \E r \in inflight, ok \in BOOLEAN : CoursesResponds(r, ok)
  \/ \E r \in inflight, ok \in BOOLEAN : PageResponds(r, ok)
  \/ \E r \in inflight, ok \in BOOLEAN : CountResponds(r, ok)

QueryEvents ==
  \/ \E t \in SearchInputs : SetSearchTerm(t)
  \/ \E g \in GradeInputs : SetFilterGrade(g)
  \/ \E s \in StatusInputs : SetFilterStatus(s)
  \/ resetFilters
  \/ nextPage
  \/ prevPage

DeleteEvents ==
  \/ \E row \in DeleteRows, c \in BOOLEAN : handleDeleteStudent(row, c)
  \/ \E r \in inflight, o \in Outcomes : DeleteResponds(r, o)

FormEvents ==
  \/ OpenAddStudent
  \/ OpenAddTeacher
  \/ OpenAddCourse
  \/ CloseAddStudent
  \/ CloseAddTeacher
  \/ CloseAddCourse
  \/ \E e \in StudentEdits : TypeStudentForm(e)
  \/ \E e \in TeacherEdits : TypeTeacherForm(e)
  \/ \E e \in CourseEdits : TypeCourseForm(e)
  \/ SubmitStudent
  \/ SubmitTeacher
  \/ SubmitCourse
  \/ \E r \in inflight, o \in Outcomes : PostStudentResponds(r, o)
  \/ \E r \in inflight, o \in Outcomes : PostTeacherResponds(r, o)
  \/ \E r \in inflight, o \in Outcomes : PostCourseResponds(r, o)

\* The views, the students query and the students list with its deletions.
Init == InitApp /\ budget = [issued |-> MaxRequests, together |-> MaxInFlight]

Next ==
  \/ \E v \in Views : Navigate(v)
  \/ QueryEvents
  \/ DeleteEvents
  \/ Responses

Spec == Init /\ [][Next]_vars

\* The views and the three creation forms.
InitForms ==
  InitApp /\ budget = [issued |-> MaxFormRequests, together |-> MaxInFlight]

NextForms ==
  \/ \E v \in Views : Navigate(v)
  \/ FormEvents
  \/ Responses

SpecForms == InitForms /\ [][NextForms]_vars

\* The course form with its grade checkboxes: the operator opens the courses
\* view and fills the Add Course dialog in, without submitting it.
NextCourse ==
  \/ Navigate("courses")
  \/ OpenAddCourse
  \/ CloseAddCourse
  \/ \E e \in CourseEdits : TypeCourseForm(e)
  \/ \E g \in GradeClicks : handleGradeLevelChange(g)
  \/ \E r \in inflight, ok \in BOOLEAN : StatsResponds(r, ok)
  \/ \E r \in inflight, ok \in BOOLEAN : CoursesResponds(r, ok)

SpecCourse == InitForms /\ [][NextCourse]_vars

\* The students list alone: page turns, resets and searches.
InitPaging ==
  InitApp /\ budget = [issued |-> MaxPagingRequests, together |-> MaxInFlight]

NextPaging ==
  \/ Navigate("students")
  \/ \E t \in SearchInputs : SetSearchTerm(t)
  \/ resetFilters
  \/ nextPage
  \/ prevPage
  \/ \E r \in inflight, ok \in BOOLEAN : StatsResponds(r, ok)
  \/ \E r \in inflight, ok \in BOOLEAN : PageResponds(r, ok)
  \/ \E r \in inflight, ok \in BOOLEAN : CountResponds(r, ok)

SpecPaging == InitPaging /\ [][NextPaging]_vars

\* The students list when every request is answered and succeeds.
InitLive ==
  InitApp /\ budget = [issued |-> MaxLiveRequests, together |-> MaxInFlight]

ResponsesOk ==
  \E r \in inflight :
    \/ StatsResponds(r, TRUE)
    \/ PageResponds(r, TRUE)
    \/ CountResponds(r, TRUE)

NextLive ==
  \/ Navigate("students")
  \/ QueryEvents
  \/ ResponsesOk

SpecLive == InitLive /\ [][NextLive]_vars /\ WF_vars(ResponsesOk)

(****************************** properties *********************************)
Ids(reqs) == {r.id : r \in reqs}
ListChanged ==
  \/ students' # students
  \/ totalStudents' # totalStudents
  \/ studentsFrom' # studentsFrom
  \/ totalFrom' # totalFrom
FilterKeys == {"search", "grade_level", "status"}
FilterPart(p) == [k \in DOMAIN p \cap FilterKeys |-> p[k]]

\* C1: the results of a students load are never written to students /
\* totalStudents once a later students load has been issued.
C1_NoStaleOverwrite ==
  [][ListChanged =>
        studentsFrom' = lastStudentsLoad /\ totalFrom' = lastStudentsLoad]_vars

\* C2: students and totalStudents are written only together, by the step
\* that delivers the second successful answer of a load's pair; a step that
\* delivers a failure of either request changes neither.
C2_AtomicCommit ==
  [][ /\ \A r \in inflight :
           (PageResponds(r, FALSE) \/ CountResponds(r, FALSE)) => ~ListChanged
      /\ ListChanged =>
           \E r \in inflight :
             /\ r.kind = "students"
             /\ \/ r.countDone /\ PageResponds(r, TRUE)
                \/ r.pageDone /\ CountResponds(r, TRUE)
             /\ studentsFrom' = r.id /\ totalFrom' = r.id ]_vars

\* A load whose page has arrived while its count is outstanding, after an
\* earlier load committed.
C2_Witness ==
  /\ studentsFrom > 0 /\ studentsFrom = totalFrom
  /\ \E r \in inflight : r.kind = "students" /\ r.pageDone /\ ~r.countDone

\* C3: the page request and the count request of one load carry the same
\* search, grade_level and status keys and values, and the count that comes
\* back is the number of all records matching them, whatever skip and limit.
C3_SameFilters ==
  /\ [](\A r \in inflight :
          r.kind = "students" =>
            FilterPart(r.pageParams) = FilterPart(r.countParams))
  /\ [][\A r \in inflight :
          CountResponds(r, TRUE) =>
            LET all == BackendCount(db, FilterPart(r.pageParams))
            IN IF r.pageDone
                 THEN totalStudents' = all
                 ELSE \E l \in inflight' : l.id = r.id /\ l.countData = all]_vars

\* The count of a filtered load of the second page has arrived: 21 records
\* of Grade 1, skip 20.
C3_Witness ==
  \E r \in inflight :
    /\ r.kind = "students" /\ r.countDone
    /\ "grade_level" \in DOMAIN r.countParams
    /\ r.pageParams.skip = "20"
    /\ r.countData > DefaultLimit

\* C4: a change of the search term, the grade filter or the status filter
\* leaves skip = 0, in the state and in the query of the reload.
C4_FilterChangeResetsSkip ==
  [][(searchTerm' # searchTerm \/ filterGrade' # filterGrade
        \/ filterStatus' # filterStatus) =>
       /\ pagination'.skip = 0
       /\ \A r \in inflight' \ inflight :
            r.kind = "students" => r.pageParams.skip = "0"]_vars

\* C5: a rejected create-student request shows the backend's detail (for a
\* duplicate: "Student ID already exists"), changes neither the list nor the
\* database, issues no reload and leaves no uncaught rejection.
C5_FailedCreate ==
  [][\A r \in inflight :
       PostStudentResponds(r, "rejected") =>
         /\ StudentIdExists(db, r.body.student_id) =>
              alertMsg' = "Error adding student: Student ID already exists"
         /\ alertMsg' = "Error adding student: " \o
              RejectionDetail(StudentIdExists(db, r.body.student_id), "Student ID")
         /\ ~ListChanged
         /\ db' = db
         /\ inflight' = inflight \ {r}
         /\ nextId' = nextId
         /\ uncaught' = {}]_vars

\* The duplicate's message is on screen, the list loaded before is shown.
C5_Witness ==
  /\ alertMsg = "Error adding student: Student ID already exists"
  /\ studentsFrom > 0 /\ Len(students) = DefaultLimit
  /\ \A r \in inflight : r.kind # "postStudent"

\* C6: when a create request succeeds the form holds its defaults and the
\* dialog is closed; when it fails the dialog is as it was, the form holds
\* the submitted values and a message is shown.
C6_FormAfterSubmission ==
  [][\A r \in inflight :
       /\ PostStudentResponds(r, "ok") =>
            studentForm' = DefaultStudentForm /\ ~showAddStudent'
       /\ PostTeacherResponds(r, "ok") =>
            teacherForm' = DefaultTeacherForm /\ ~showAddTeacher'
       /\ PostCourseResponds(r, "ok") =>
            courseForm' = DefaultCourseForm /\ ~showAddCourse'
       /\ (PostStudentResponds(r, "rejected") \/ PostStudentResponds(r, "network")) =>
            /\ showAddStudent' = showAddStudent
            /\ studentForm' = r.body
            /\ alertMsg' # ""
       /\ (PostTeacherResponds(r, "rejected") \/ PostTeacherResponds(r, "network")) =>
            /\ showAddTeacher' = showAddTeacher
            /\ teacherForm' = r.body
            /\ alertMsg' # ""
       /\ (PostCourseResponds(r, "rejected") \/ PostCourseResponds(r, "network")) =>
            /\ showAddCourse' = showAddCourse
            /\ courseForm'.course_code = r.body.course_code
            /\ courseForm'.course_name = r.body.course_name
            /\ courseForm'.grade_levels = r.body.grade_levels
            /\ alertMsg' # ""]_vars

\* C7: after two clicks in a row on the same grade, grade_levels is the
\* sequence it was before the first of them.
TwoClicksOnOneGrade ==
  lastToggle.grade # "" /\ lastToggle.prevGrade = lastToggle.grade
C7_ToggleTwiceRestores ==
  TwoClicksOnOneGrade => courseForm.grade_levels = lastToggle.prevBefore

\* C7 as amended: two clicks in a row on the same grade keep the membership;
\* the order is the original one when the grade was absent or last at the
\* start, and otherwise the grade has moved to the end, the others in order.
Members(seq) == {seq[i] : i \in 1..Len(seq)}
Without(seq, x) == SelectSeq(seq, LAMBDA y : y # x)
C7_ToggleTwiceAmended ==
  TwoClicksOnOneGrade =>
    LET g == lastToggle.grade
        b == lastToggle.prevBefore
        a == courseForm.grade_levels
    IN /\ Members(a) = Members(b) /\ Len(a) = Len(b)
       /\ IF g \notin Members(b) \/ b[Len(b)] = g
            THEN a = b
            ELSE a = Append(Without(b, g), g)

\* A grade selected first of three has been clicked twice.
C7_Witness ==
  /\ TwoClicksOnOneGrade
  /\ Len(lastToggle.prevBefore) = 3
  /\ lastToggle.prevBefore[1] = lastToggle.grade

\* C8: the students load issued when a delete or a create succeeds carries
\* the query of the state the answer arrives in.
C8_ReloadUsesCurrentQuery ==
  [][\A r \in inflight :
       (DeleteResponds(r, "ok") \/ PostStudentResponds(r, "ok")) =>
         \E l \in inflight' :
           /\ l.kind = "students" /\ l.id = nextId
           /\ l.pageParams = PageParams(Query)
           /\ l.countParams = CountParams(Query)]_vars

\* C9: skip is a non-negative integer and limit a positive one.
C9_SkipLimitRange ==
  /\ pagination.skip \in Nat
  /\ pagination.limit \in Nat \ {0}

\* The third page, reached by two page turns.
C9_Witness == pagination.skip = 2 * DefaultLimit /\ lastStudentsLoad = nextId - 1

\* C10: skip is a multiple of limit.
C10_SkipMultipleOfLimit == pagination.skip % pagination.limit = 0

\* The second page with a filter changed after the page turn.
C10_Witness ==
  /\ pagination.skip = DefaultLimit
  /\ filterGrade # "" /\ studentsFrom > 0

\* C11: the parameters of a students load hold skip and limit always, and
\* search, grade_level and status exactly when the filter is not empty,
\* with the filter's value; no filter parameter is ever the empty string.
WellFormedParams(p) ==
  /\ {"skip", "limit"} \subseteq DOMAIN p
  /\ \A k \in DOMAIN p \cap FilterKeys : p[k] # ""
ParamsReflect(p, q) ==
  /\ DOMAIN p \cap FilterKeys =
       (IF q.searchTerm # "" THEN {"search"} ELSE {})
         \cup (IF q.filterGrade # "" THEN {"grade_level"} ELSE {})
         \cup (IF q.filterStatus # "" THEN {"status"} ELSE {})
  /\ "search" \in DOMAIN p => p.search = q.searchTerm
  /\ "grade_level" \in DOMAIN p => p.grade_level = q.filterGrade
  /\ "status" \in DOMAIN p => p.status = q.filterStatus
C11_NoEmptyFilterParams ==
  /\ [](/\ \A r \in inflight :
              r.kind = "students" =>
                WellFormedParams(r.pageParams) /\ WellFormedParams(r.countParams)
        /\ WellFormedParams(BuildParams(Query))
        /\ ParamsReflect(BuildParams(Query), Query))
  /\ [][\A l \in inflight' \ inflight :
          (l.kind = "students" /\ l.id \notin Ids(inflight)) =>
            \/ ParamsReflect(l.pageParams, Query')
            \/ \E r \in inflight \ inflight' :
                 /\ r.kind \in {"deleteStudent", "postStudent"}
                 /\ ParamsReflect(l.pageParams, r.closure)]_vars

\* The search box was filled and emptied again: the load of the search is
\* in flight with a search parameter, the one issued next has none.
C11_Witness ==
  /\ searchTerm = "" /\ lastPaging.op = ""
  /\ \E a, b \in inflight :
       /\ a.kind = "students" /\ b.kind = "students" /\ b.id = a.id + 1
       /\ "search" \in DOMAIN a.pageParams /\ a.pageParams.search = "Ann"
       /\ DOMAIN b.pageParams = {"skip", "limit"}

\* C12: resetFilters leaves the initial query (no search, no grade, no
\* status, skip 0, limit 20), and the parameters built from it, which are
\* those of the load it issues, are skip=0 and limit=20 and nothing else.
C12_ResetRestoresInitialQuery ==
  [][resetFilters =>
       /\ searchTerm' = "" /\ filterGrade' = "" /\ filterStatus' = ""
       /\ pagination' = [skip |-> 0, limit |-> 20]
       /\ DOMAIN BuildParams(Query') = {"skip", "limit"}
       /\ BuildParams(Query').skip = "0" /\ BuildParams(Query').limit = "20"
       /\ \E l \in inflight' \ inflight :
            /\ l.kind = "students"
            /\ l.pageParams = BuildParams(Query')
            /\ DOMAIN l.pageParams = {"skip", "limit"}
            /\ l.pageParams.skip = "0" /\ l.pageParams.limit = "20"]_vars

\* Reset was pressed on the second page of a search.
C12_Witness ==
  /\ lastPaging.op = "reset"
  /\ lastPaging.before.searchTerm = "Ann"
  /\ lastPaging.before.pagination.skip = DefaultLimit
  /\ Query = InitialQuery

\* C13: a prevPage that comes right after a nextPage leaves skip and limit
\* as they were before the nextPage.
NextThenPrev == lastPaging.op = "prev" /\ lastPaging.prevOp = "next"
C13_NextThenPrevRestores ==
  NextThenPrev => pagination = lastPaging.prevBefore.pagination

\* Next and then Previous were pressed on the second page.
C13_Witness ==
  /\ NextThenPrev
  /\ lastPaging.prevBefore.pagination.skip = DefaultLimit
  /\ lastPaging.before.pagination.skip = 2 * DefaultLimit

\* C14: prevPage sets skip to max(0, skip - limit), never below 0, and its
\* updater applied at skip = 0 gives skip = 0.
C14_PrevPageNotNegative ==
  /\ [](pagination.skip = 0 => PrevPagination(pagination) = pagination)
  /\ [](PrevPagination(pagination).skip >= 0)
  /\ [][prevPage =>
          /\ pagination'.skip >= 0
          /\ pagination'.limit = pagination.limit
          /\ pagination'.skip =
               (IF pagination.skip - pagination.limit > 0
                  THEN pagination.skip - pagination.limit ELSE 0)]_vars

\* Previous was pressed on the second page: skip is 0 again.
C14_Witness ==
  /\ lastPaging.op = "prev"
  /\ lastPaging.before.pagination.skip = DefaultLimit
  /\ pagination.skip = 0

\* C15: a page turn forward happens only where the list is shown and
\* skip + limit < totalStudents, a page turn back only where skip > 0.
C15_PageTurnsGuarded ==
  [][ /\ (nextPage \/ pagination'.skip > pagination.skip) =>
           /\ activeView = "students" /\ ~loading
           /\ pagination.skip + pagination.limit < totalStudents
      /\ prevPage =>
           /\ activeView = "students" /\ ~loading
           /\ pagination.skip # 0 ]_vars

\* The last page of 45 is shown, reached by Next, and Previous was pressed
\* on it.
C15_Witness ==
  /\ lastPaging.op = "prev" /\ lastPaging.prevOp = "next"
  /\ lastPaging.before.pagination.skip = 2 * DefaultLimit
  /\ totalStudents = InitialStudents

\* C16: with 45 students and limit 20, two nextPage from skip 0 give skip
\* 40, the window reads 41 to 45 of 45, and nextPage cannot run again.
TwoNextsFromStart ==
  /\ lastPaging.op = "next" /\ lastPaging.prevOp = "next"
  /\ lastPaging.prevBefore.pagination = [skip |-> 0, limit |-> 20]
C16_LastPageOf45 ==
  /\ [](TwoNextsFromStart => pagination = [skip |-> 40, limit |-> 20])
  /\ []((totalStudents = 45 /\ pagination = [skip |-> 40, limit |-> 20]) =>
          /\ PageWindow = [from |-> 41, to |-> 45, of |-> 45]
          /\ NextDisabled)
  /\ [][(totalStudents = 45 /\ pagination = [skip |-> 40, limit |-> 20]) =>
          ~nextPage /\ pagination'.skip <= 40]_vars

\* Next was pressed twice from the first page of 45 students and the third
\* page, of five rows, is shown.
C16_Witness ==
  /\ TwoNextsFromStart
  /\ totalStudents = 45 /\ Len(students) = 5
  /\ ListShown /\ studentsFrom = lastStudentsLoad

\* C17: a load at skip 0 that gets an empty page and a count of 0 ends
\* with no rows, totalStudents 0, the spinner gone, the window 1 to 0 of 0,
\* Next and Previous disabled, and no error shown or left uncaught.
ArrivedPage(r) ==
  IF r.pageDone THEN r.pageData ELSE BackendPage(db, r.pageParams)
ArrivedCount(r) ==
  IF r.countDone THEN r.countData ELSE BackendCount(db, r.countParams)
C17_EmptyResult ==
  [][\A r \in inflight :
       ( /\ r.kind = "students" /\ pagination.skip = 0
         /\ r.id \notin Ids(inflight')
         /\ ArrivedCount(r) = 0 /\ ArrivedPage(r) = << >>
         /\ PageResponds(r, TRUE) \/ CountResponds(r, TRUE) ) =>
         /\ students' = << >> /\ totalStudents' = 0
         /\ ~loading'
         /\ alertMsg' = alertMsg /\ uncaught' = {}
         /\ PageWindow' = [from |-> 1, to |-> 0, of |-> 0]
         /\ NextDisabled' /\ PrevDisabled']_vars

\* After the full list was shown, the status filter was set to a status no
\* student has and its load has come back.
C17_Witness ==
  /\ filterStatus = "suspended" /\ pagination.skip = 0
  /\ ListShown /\ students = << >> /\ totalStudents = 0
  /\ studentsFrom = lastStudentsLoad /\ lastStudentsLoad > 2

\* C18: a change of view issues one request, that of the new view: the
\* statistics, the students pair built from the current query, or the
\* teachers or courses listing with no parameter; the mount issues the
\* statistics fetch alone.
ViewLoadKind(v) ==
  CASE v = "dashboard" -> "stats"
    [] v = "students" -> "students"
    [] v = "teachers" -> "teachers"
    [] v = "courses" -> "courses"
C18_ActivationLoadsItsView ==
  /\ [](nextId = 2 => inflight \subseteq {[id |-> 1, kind |-> "stats"]})
  /\ [][\A v \in Views :
          (activeView' = v /\ activeView # v) =>
            LET new == {l \in inflight' : l.id \notin Ids(inflight)}
            IN /\ Cardinality(new) = 1
               /\ inflight \subseteq inflight'
               /\ \A l \in new :
                    /\ l.kind = ViewLoadKind(v)
                    /\ v # "students" => DOMAIN l = {"id", "kind"}
                    /\ v = "students" =>
                         /\ l.pageParams = BuildParams(Query')
                         /\ l.countParams = BuildParams(Query')
                         /\ ~l.pageDone /\ ~l.countDone]_vars

\* The teachers view was opened while a students load was in flight.
C18_Witness ==
  /\ activeView = "teachers"
  /\ \E l, t \in inflight :
       /\ l.kind = "students"
       /\ t.kind = "teachers" /\ t.id = nextId - 1 /\ t.id > l.id

\* C19: a DELETE request appears only in a step of handleDeleteStudent in
\* which window.confirm answered yes; when it answers no, no request is
\* issued and the list, the count, the spinner, the filters, the pagination
\* and the database stay as they are.
C19_DeleteOnlyAfterConfirm ==
  [][ /\ \A l \in inflight' :
           (l.kind = "deleteStudent" /\ l.id \notin Ids(inflight)) =>
             /\ lastConfirm' = "confirmed"
             /\ \E row \in 1..Len(students) :
                  /\ handleDeleteStudent(row, TRUE)
                  /\ l.studentId = students[row].id
      /\ \A row \in DeleteRows :
           handleDeleteStudent(row, FALSE) =>
             /\ inflight' = inflight /\ nextId' = nextId
             /\ UNCHANGED << students, totalStudents, loading, searchTerm,
                             filterGrade, filterStatus, pagination, db >> ]_vars

\* The confirmation was declined on the loaded list: nothing is in flight
\* and the database holds every student.
C19_Witness ==
  /\ lastConfirm = "declined"
  /\ ListShown /\ Len(students) = DefaultLimit
  /\ inflight = {} /\ Len(db) = InitialStudents

\* C20: a failed statistics, students, teachers or courses fetch leaves the
\* collection it was for as it was, shows no message, leaves nothing
\* uncaught and keeps the view; the spinner of the statistics and of the
\* students load is cleared, so the controls stay in reach.
FailedRead(r) ==
  \/ StatsResponds(r, FALSE)
  \/ PageResponds(r, FALSE)
  \/ CountResponds(r, FALSE)
  \/ TeachersResponds(r, FALSE)
  \/ CoursesResponds(r, FALSE)
C20_FailedReadKeepsView ==
  [][\A r \in inflight :
       /\ StatsResponds(r, FALSE) => dashboardStats' = dashboardStats /\ ~loading'
       /\ (PageResponds(r, FALSE) \/ CountResponds(r, FALSE)) =>
            /\ students' = students /\ totalStudents' = totalStudents
            /\ ~loading'
       /\ TeachersResponds(r, FALSE) => teachers' = teachers
       /\ CoursesResponds(r, FALSE) => courses' = courses
       /\ FailedRead(r) =>
            /\ alertMsg' = alertMsg /\ uncaught' = {}
            /\ activeView' = activeView
            /\ r.id \notin Ids(inflight')]_vars

\* The full first page is shown although the students load issued last has
\* gone without being committed: it failed.
C20_Witness ==
  /\ activeView = "students" /\ ~loading
  /\ studentsFrom > 0 /\ lastStudentsLoad > studentsFrom
  /\ \A r \in inflight : r.kind # "students"
  /\ Len(students) = DefaultLimit /\ totalStudents = InitialStudents

\* C21: the step in which a request fails issues no request: the failed
\* one leaves, nothing takes its place, no id is used up.
FailedMutation(r) ==
  \E o \in {"rejected", "network"} :
    \/ PostStudentResponds(r, o)
    \/ PostTeacherResponds(r, o)
    \/ PostCourseResponds(r, o)
    \/ DeleteResponds(r, o)
C21_NoAutomaticRetry ==
  [][\A r \in inflight :
       (FailedRead(r) \/ FailedMutation(r)) =>
         /\ nextId' = nextId
         /\ Ids(inflight') = Ids(inflight) \ {r.id}]_vars

\* A create-teacher request failed for want of a network and nothing was
\* sent after it.
C21_Witness ==
  /\ alertMsg = "Error adding teacher: Network Error"
  /\ inflight = {} /\ teacherDb = << >>

\* C22: a step that changes the view, a filter or the pagination, resetFilters
\* included, issues one request, the load of the view shown after the step.
QueryChanged ==
  \/ searchTerm' # searchTerm
  \/ filterGrade' # filterGrade
  \/ filterStatus' # filterStatus
  \/ pagination' # pagination
C22_OneReloadPerChange ==
  [][(activeView' # activeView \/ QueryChanged \/ resetFilters) =>
       LET new == {l \in inflight' : l.id \notin Ids(inflight)}
       IN /\ Cardinality(new) = 1
          /\ nextId' = nextId + 1
          /\ \A l \in new :
               /\ l.kind = ViewLoadKind(activeView')
               /\ l.id = nextId
               /\ l.kind = "students" =>
                    /\ l.pageParams = BuildParams(Query')
                    /\ l.countParams = BuildParams(Query')]_vars

\* Reset was pressed while a search was set; the one load it issued is the
\* last request sent.
C22_Witness ==
  /\ lastPaging.op = "reset" /\ lastPaging.before.searchTerm = "Ann"
  /\ lastPaging.before.pagination.skip = 0
  /\ lastStudentsLoad = nextId - 1
  /\ \E l \in inflight : l.id = lastStudentsLoad /\ l.kind = "students"

\* C23: the body of a create request is the form as it was at the submit;
\* for a course credit_hours is the integer the text stands for, or null
\* when the text is empty, every other field as it was.
NewRequests == {l \in inflight' : l.id \notin Ids(inflight)}
C23_SubmitPassesBuffer ==
  [][ /\ SubmitStudent =>
           \E l \in NewRequests : l.kind = "postStudent" /\ l.body = studentForm
      /\ SubmitTeacher =>
           \E l \in NewRequests : l.kind = "postTeacher" /\ l.body = teacherForm
      /\ SubmitCourse =>
           \E l \in NewRequests :
             /\ l.kind = "postCourse"
             /\ DOMAIN l.body = DOMAIN courseForm
             /\ \A f \in DOMAIN courseForm \ {"credit_hours"} :
                  l.body[f] = courseForm[f]
             /\ IF courseForm.credit_hours = ""
                  THEN l.body.credit_hours.null
                  ELSE /\ ~l.body.credit_hours.null
                       /\ ~l.body.credit_hours.int.nan
                       /\ ToString(l.body.credit_hours.int.value) =
                            courseForm.credit_hours ]_vars

\* A course with 3 credit hours is on its way to the backend.
C23_Witness ==
  \E r \in inflight :
    /\ r.kind = "postCourse"
    /\ ~r.body.credit_hours.null /\ r.body.credit_hours.int.value = 3
    /\ r.body.course_code = "M101"

\* C24: activeView starts as dashboard, is always one of the four views and
\* changes only in a step of a navigation button.
C24_ViewChangesByNavigation ==
  /\ activeView = "dashboard"
  /\ [](activeView \in {"dashboard", "students", "teachers", "courses"})
  /\ [][activeView' # activeView =>
          \E v \in Views : Navigate(v) /\ activeView' = v]_vars

\* Back on the dashboard after the students list was loaded and the
\* teachers view visited.
C24_Witness ==
  /\ activeView = "dashboard" /\ studentsFrom > 0
  /\ nextId = 5 /\ inflight = {}

\* C25: once the operator has stopped and every request has been answered
\* with success, the students view shows, and goes on showing, the page and
\* the count of the query on screen.
StudentsSettled ==
  /\ \A r \in inflight : r.kind # "students"
  /\ studentsFrom = lastStudentsLoad /\ totalFrom = lastStudentsLoad
  /\ students = BackendPage(db, PageParams(Query))
  /\ totalStudents = BackendCount(db, CountParams(Query))
C25_EventuallyConsistent ==
  <>[](activeView = "students" => StudentsSettled)

\* C26: a click on a grade checkbox removes the grade when it is selected
\* and appends it when it is not, the other grades staying in their order;
\* no grade is ever selected twice.
NoDuplicates(seq) ==
  \A i, j \in 1..Len(seq) : i # j => seq[i] # seq[j]
C26_ToggleMembership ==
  /\ NoDuplicates(courseForm.grade_levels)
  /\ lastToggle.grade # "" =>
       courseForm.grade_levels =
         (IF lastToggle.grade \in Members(lastToggle.before)
            THEN Without(lastToggle.before, lastToggle.grade)
            ELSE Append(lastToggle.before, lastToggle.grade))

\* The second of three selected grades was clicked: the first and the third
\* remain, in that order.
C26_Witness ==
  /\ Len(lastToggle.before) = 3
  /\ lastToggle.grade = lastToggle.before[2]
  /\ courseForm.grade_levels = << lastToggle.before[1], lastToggle.before[3] >>

\* C27: a failed POST of any of the three create handlers alerts the
\* handler's prefix followed by the backend's detail when there is one and
\* by the error's own message otherwise, leaves the dialog flag as it is
\* and issues no request.
CreateFailureShown(r, prefix, detail, o) ==
  /\ alertMsg' = prefix \o (IF o = "rejected" THEN detail ELSE "Network Error")
  /\ nextId' = nextId
  /\ Ids(inflight') = Ids(inflight) \ {r.id}
C28_ListAndCountFromOneLoad == studentsFrom = totalFrom

\* The list of one load is shown while two later loads overlap, the page of
\* one and the count of the other having arrived.
C28_Witness ==
  /\ studentsFrom > 0
  /\ \E a, b \in inflight :
       /\ a.kind = "students" /\ b.kind = "students" /\ a.id # b.id
       /\ a.pageDone /\ ~a.countDone
       /\ b.countDone /\ ~b.pageDone

\* C29: loading is true whenever a students load or a statistics load is
\* in flight.
C29_LoadingWhileInFlight ==
  (\E r \in inflight : r.kind \in {"students", "stats"}) => loading

\* C30: loading is false whenever no students load and no statistics load
\* is in flight.
C30_LoadingReturnsToFalse ==
  (\A r \in inflight : r.kind \notin {"students", "stats"}) => ~loading

\* The statistics load and the only students load have both failed.
C30_Witness ==
  /\ ~loading /\ inflight = {}
  /\ ~dashboardStats.loaded
  /\ lastStudentsLoad > 0 /\ studentsFrom = 0

\* C31: a students load is issued only while students is the active view:
\* every step that puts a new students request in flight ends in a state
\* whose active view is students.
C31_StudentsLoadOnlyInStudentsView ==
  [][ \A l \in NewRequests : l.kind = "students" => activeView' = "students" ]_vars

\* C32: when nothing is in flight and totalStudents is positive, skip is
\* below totalStudents, so the window shown starts no later than it ends.
C32_PageInRange ==
  (inflight = {} /\ totalStudents > 0) =>
    /\ pagination.skip < totalStudents
    /\ PageWindow.from <= PageWindow.to

\* C33: nextPage and prevPage change only skip: limit, the search term, the
\* two filters, the active view, the list and the total are the same after
\* the step as before it.
C33_PageTurnChangesOnlySkip ==
  [][ (nextPage \/ prevPage) =>
        /\ pagination'.skip # pagination.skip
        /\ pagination'.limit = pagination.limit
        /\ DOMAIN pagination' = {"skip", "limit"}
        /\ UNCHANGED << searchTerm, filterGrade, filterStatus, activeView,
                        students, totalStudents >> ]_vars

\* A page was turned while a search was set and a list was shown: skip
\* moved, and the rest of the query is what it was before the click.
C33_Witness ==
  /\ lastPaging.op \in {"next", "prev"}
  /\ pagination.skip # lastPaging.before.pagination.skip
  /\ [Query EXCEPT !.pagination.skip = 0] =
       [lastPaging.before EXCEPT !.pagination.skip = 0]
  /\ searchTerm = "Ann"
  /\ students # << >> /\ totalStudents > 0

\* C34: closing a creation dialog leaves the three form buffers as they
\* are, a buffer changes only while its own dialog is open (so the values
\* typed are there when the dialog is opened again), and a step that edits
\* or submits one form leaves the other two buffers unchanged.
C34_BuffersKeptAndIndependent ==
  [][ /\ (CloseAddStudent \/ CloseAddTeacher \/ CloseAddCourse) =>
           UNCHANGED formVars
      /\ (OpenAddStudent \/ OpenAddTeacher \/ OpenAddCourse) =>
           UNCHANGED formVars
      /\ studentForm' # studentForm =>
           showAddStudent /\ UNCHANGED << teacherForm, courseForm >>
      /\ teacherForm' # teacherForm =>
           showAddTeacher /\ UNCHANGED << studentForm, courseForm >>
      /\ courseForm' # courseForm =>
           showAddCourse /\ UNCHANGED << studentForm, teacherForm >>
      /\ ((\E e \in StudentEdits : TypeStudentForm(e)) \/ SubmitStudent) =>
           UNCHANGED << teacherForm, courseForm >>
      /\ ((\E e \in TeacherEdits : TypeTeacherForm(e)) \/ SubmitTeacher) =>
           UNCHANGED << studentForm, courseForm >>
      /\ ((\E e \in CourseEdits : TypeCourseForm(e)) \/ SubmitCourse) =>
           UNCHANGED << studentForm, teacherForm >> ]_vars

\* The student dialog was closed with values typed in it, and the teacher
\* dialog is open with values of its own.
C34_Witness ==
  /\ ~showAddStudent /\ studentForm # DefaultStudentForm
  /\ showAddTeacher /\ teacherForm # DefaultTeacherForm
  /\ courseForm = DefaultCourseForm
====
